---- MODULE Spec2Model ----
(***************************************************************************)
(* A model of the literature-harvesting scripts fetch_literature.py        *)
(* (Vietnamese keywords, variant "vi"), fetch_literature_en.py ("en") and  *)
(* fetch_literature_fr.py ("fr").                                          *)
(*                                                                         *)
(* Text is a sequence of one-character strings, so that strip, split,      *)
(* startswith and the regular-expression substitutions are computed        *)
(* character by character as Python computes them.                         *)
(***************************************************************************)
EXTENDS Integers, Sequences, FiniteSets, TLC

VARIABLES
    variant,        \* which script runs: "vi", "en" or "fr"
    pc,             \* position of the run (or of the function call under test)
    arg,            \* argument of the function call under test; in a run, the
                    \* kind of server it runs against; the calls of two
                    \* concurrent runs
    ret,            \* its return value; in a run, the history of the CrossRef
                    \* requests
    keywords_md,    \* keywords.md, a sequence of lines
    kws,            \* the keywords main loaded
    max_arg,        \* args.max (--max) of the English and French scripts
    page,           \* main's CrossRef page counter (fetch_literature.py)
    offset,         \* the offset of the next CrossRef page
    crossref_items, \* all_crossref_items / crossref_items
    pubmed_items,
    libgen_items,
    scihub_items,   \* the {'doi', 'pdf_url'} entries query_scihub found
    count,          \* records processed so far
    downloaded,     \* main's flag of the record in hand
    existed,        \* history: a file was at the record's path when its turn began
    urls,           \* urls.txt
    metadata,       \* metadata.csv
    summary,        \* summary.csv
    buf,            \* rows process_items wrote that its open files still buffer
    disk,           \* References/: file name -> content
    attempts        \* history: the download calls made, with their outcome

filevars == <<urls, metadata, summary, buf, disk>>

queryvars == <<page, offset, crossref_items, pubmed_items, libgen_items, scihub_items>>

mainvars ==
    <<keywords_md, kws, max_arg, queryvars, count, downloaded, existed, filevars, attempts>>

vars == <<variant, pc, arg, ret, mainvars>>

Variants == {"vi", "en", "fr"}

(***************************************************************************)
(* Characters and the character classes of Python's re module.             *)
(***************************************************************************)
Whitespace == {" ", "\t"}

Digits == {"0", "1", "2", "3", "4", "5", "6", "7", "8", "9"}

DigitSeq == <<"0", "1", "2", "3", "4", "5", "6", "7", "8", "9">>

LowerSeq == <<"a", "b", "c", "d", "e", "f", "g", "h", "i", "j", "k", "l", "m",
              "n", "o", "p", "q", "r", "s", "t", "u", "v", "w", "x", "y", "z">>

UpperSeq == <<"A", "B", "C", "D", "E", "F", "G", "H", "I", "J", "K", "L", "M",
              "N", "O", "P", "Q", "R", "S", "T", "U", "V", "W", "X", "Y", "Z">>

AsciiLetters == {LowerSeq[i] : i \in 1..26} \cup {UpperSeq[i] : i \in 1..26}

\* Letters outside ASCII that occur in the model's texts: str patterns are
\* Unicode patterns in Python 3, so \w matches them.
UnicodeLetters == {"é", "ế", "ệ", "ß"}

\* [0-9A-Za-z_\-\.]
IsSafeChar(c) == c \in Digits \cup AsciiLetters \cup {"_", "-", "."}

\* \w
IsWordChar(c) == c \in Digits \cup AsciiLetters \cup UnicodeLetters \cup {"_"}

\* [\w\-_\.]
IsWordDashDot(c) == IsWordChar(c) \/ c \in {"-", "_", "."}

\* \s
IsSpace(c) == c \in Whitespace

\* str.lower() on one character
LowerChar(c) ==
    IF \E i \in 1..26 : UpperSeq[i] = c
    THEN LowerSeq[CHOOSE i \in 1..26 : UpperSeq[i] = c]
    ELSE c

Lower(s) == [i \in 1..Len(s) |-> LowerChar(s[i])]

\* s[:n]
Take(s, n) == SubSeq(s, 1, IF Len(s) < n THEN Len(s) ELSE n)

\* s[n:]
Drop(s, n) == SubSeq(s, n + 1, Len(s))

StartsWith(s, p) == Len(p) <= Len(s) /\ SubSeq(s, 1, Len(p)) = p

EndsWith(s, p) == Len(p) <= Len(s) /\ SubSeq(s, Len(s) - Len(p) + 1, Len(s)) = p

RECURSIVE LStrip(_)
LStrip(s) == IF s # <<>> /\ IsSpace(Head(s)) THEN LStrip(Tail(s)) ELSE s

RECURSIVE RStrip(_)
RStrip(s) ==
    IF s # <<>> /\ IsSpace(s[Len(s)]) THEN RStrip(SubSeq(s, 1, Len(s) - 1)) ELSE s

\* str.strip()
Strip(s) == RStrip(LStrip(s))

\* what re.sub(cls+, '_', s) leaves of s[i]: the first character of a run
\* of the class becomes '_', the rest of the run nothing
Kept(c) == c # ""

\* re.sub(r'\s+', '_', s): every maximal run of whitespace becomes one '_'
SubSpaceRuns(s) ==
    SelectSeq([i \in 1..Len(s) |->
                  IF ~IsSpace(s[i]) THEN s[i]
                  ELSE IF i > 1 /\ IsSpace(s[i - 1]) THEN "" ELSE "_"],
              Kept)

\* re.sub(r'\W+', '_', s): every maximal run of non-word characters becomes one '_'
SubNonWordRuns(s) ==
    SelectSeq([i \in 1..Len(s) |->
                  IF IsWordChar(s[i]) THEN s[i]
                  ELSE IF i > 1 /\ ~IsWordChar(s[i - 1]) THEN "" ELSE "_"],
              Kept)

\* re.sub(r'[^0-9A-Za-z_\-\.]+', '', s)
DeleteUnsafe(s) == SelectSeq(s, IsSafeChar)

\* re.sub(r'[^\w\-_\.]', '', s)
DeleteNonWordDashDot(s) == SelectSeq(s, IsWordDashDot)

\* str(n) for an integer n >= 0
RECURSIVE IntToStr(_)
IntToStr(n) ==
    IF n < 10 THEN <<DigitSeq[n + 1]>>
    ELSE IntToStr(n \div 10) \o <<DigitSeq[(n % 10) + 1]>>

\* the part of s before the first sep: s.split(sep)[0]
RECURSIVE SplitFirst(_, _)
SplitFirst(s, sep) ==
    IF s = <<>> \/ Head(s) = sep THEN <<>>
    ELSE <<Head(s)>> \o SplitFirst(Tail(s), sep)

\* the index at which the word starting at t[1] ends
RECURSIVE WordEnd(_, _)
WordEnd(t, k) ==
    IF k < Len(t) /\ ~IsSpace(t[k + 1]) THEN WordEnd(t, k + 1) ELSE k

\* s.split(): the whitespace-separated words of s
RECURSIVE Words(_)
Words(s) ==
    LET t == LStrip(s)
    IN  IF t = <<>> THEN <<>>
        ELSE <<SubSeq(t, 1, WordEnd(t, 1))>> \o Words(Drop(t, WordEnd(t, 1)))

\* sep.join(parts)
RECURSIVE Join(_, _)
Join(parts, sep) ==
    IF parts = <<>> THEN <<>>
    ELSE IF Len(parts) = 1 THEN parts[1]
    ELSE parts[1] \o sep \o Join(Tail(parts), sep)

(***************************************************************************)
(* sanitize_filename                                                       *)
(***************************************************************************)
NameLimit == 200

\* fetch_literature.py and fetch_literature_en.py
sanitize_filename_vi(s) == Take(DeleteUnsafe(SubSpaceRuns(s)), NameLimit)

\* fetch_literature_fr.py: \w keeps every Unicode letter, and nothing truncates
sanitize_filename_fr(s) == DeleteNonWordDashDot(SubSpaceRuns(s))

sanitize_filename(v, s) ==
    IF v = "fr" THEN sanitize_filename_fr(s) ELSE sanitize_filename_vi(s)

(***************************************************************************)
(* Keyword loaders.  A keyword file is a sequence of lines.                *)
(***************************************************************************)
HeadingVi == <<"#", "#", " ", "T", "i", "ế", "n", "g", " ", "V", "i", "ệ", "t">>

HeadingEn == <<"#", "#", " ", "e", "n", "g", "l", "i", "s", "h">>

\* U+221A, the square-root sign: one character of the source's literal
SqrtSign == "U+221A"

\* the literal of fetch_literature_fr.py as it stands in the source: '## fran',
\* U+221A, U+00DF, 'ais'
HeadingFr == <<"#", "#", " ", "f", "r", "a", "n", SqrtSign, "ß", "a", "i", "s">>

\* line[1:].strip() when the line starts with '-'
StripMarker(line) == IF StartsWith(line, <<"-">>) THEN Strip(Tail(line)) ELSE line

RECURSIVE read_keywords_loop(_, _, _, _)
read_keywords_loop(f, i, in_vietnamese, acc) ==
    IF i > Len(f) THEN acc
    ELSE LET line == Strip(f[i]) IN
        IF line = HeadingVi THEN read_keywords_loop(f, i + 1, TRUE, acc)
        ELSE IF StartsWith(line, <<"#", "#">>) /\ in_vietnamese THEN acc
        ELSE IF ~in_vietnamese THEN read_keywords_loop(f, i + 1, in_vietnamese, acc)
        ELSE IF line = <<>> \/ StartsWith(line, <<"#">>)
            THEN read_keywords_loop(f, i + 1, in_vietnamese, acc)
        ELSE IF EndsWith(line, <<":">>)
            THEN read_keywords_loop(f, i + 1, in_vietnamese, acc)
        ELSE read_keywords_loop(f, i + 1, in_vietnamese, Append(acc, StripMarker(line)))

read_keywords(f) == read_keywords_loop(f, 1, FALSE, <<>>)

RECURSIVE extract_english_loop(_, _, _, _)
extract_english_loop(f, i, in_eng, lines) ==
    IF i > Len(f) THEN lines
    ELSE LET s == Strip(f[i]) IN
        IF StartsWith(Lower(s), HeadingEn) THEN extract_english_loop(f, i + 1, TRUE, lines)
        ELSE IF ~in_eng THEN extract_english_loop(f, i + 1, in_eng, lines)
        ELSE IF StartsWith(s, <<"#", "#", " ">>) THEN lines
        ELSE IF s = <<>> \/ StartsWith(s, <<"#">>)
            THEN extract_english_loop(f, i + 1, in_eng, lines)
        ELSE extract_english_loop(f, i + 1, in_eng, Append(lines, StripMarker(s)))

extract_english_keywords(f) == extract_english_loop(f, 1, FALSE, <<>>)

\* the break test with the blank-line rule alone: any blank line ends the section
french_break_on_blank(s, lines) ==
    \/ StartsWith(s, <<"#", "#", " ">>)
    \/ StartsWith(s, <<"-", "-", "-">>)
    \/ s = <<>>

\* the test that ends the French section
french_break(s, lines) ==
    \/ StartsWith(s, <<"#", "#", " ">>)
    \/ StartsWith(s, <<"-", "-", "-">>)
    \/ (s = <<>> /\ lines # <<>>)

RECURSIVE extract_french_loop(_, _, _, _)
extract_french_loop(f, i, in_fr, lines) ==
    IF i > Len(f) THEN lines
    ELSE LET s == Strip(f[i]) IN
        IF StartsWith(Lower(s), HeadingFr) THEN extract_french_loop(f, i + 1, TRUE, lines)
        ELSE IF ~in_fr THEN extract_french_loop(f, i + 1, in_fr, lines)
        ELSE IF french_break(s, lines) THEN lines
        ELSE IF s = <<>> \/ StartsWith(s, <<"#">>)
            THEN extract_french_loop(f, i + 1, in_fr, lines)
        ELSE extract_french_loop(f, i + 1, in_fr, Append(lines, StripMarker(s)))

extract_french_keywords(f) == extract_french_loop(f, 1, FALSE, <<>>)

\* a loader that takes every non-empty line of the file, in a section or not
load_any_line(v, f) ==
    SelectSeq([i \in 1..Len(f) |-> Strip(f[i])], LAMBDA s : s # <<>>)

\* the keyword loader of each script
load_keywords(v, f) ==
    CASE v = "vi" -> read_keywords(f)
      [] v = "en" -> extract_english_keywords(f)
      [] v = "fr" -> extract_french_keywords(f)

(***************************************************************************)
(* Source items.  Every item is a record of one shape, so that items of    *)
(* the three sources can stand in one list: keys is the set of keys the    *)
(* Python dict holds, and a field whose key is absent holds an empty       *)
(* value that is never read.  URLs, DOIs and content types are sequences   *)
(* of tokens; a date-parts list is a sequence of sequences of integers in  *)
(* which 0 stands for None.                                                *)
(***************************************************************************)
EmptyItem ==
    [keys |-> {}, DOI |-> <<>>, title |-> <<>>, author |-> <<>>, issued |-> <<>>,
     published_print |-> <<>>, published_online |-> <<>>, container_title |-> <<>>,
     abstract |-> <<>>, URL |-> <<>>, link |-> <<>>,
     title_s |-> <<>>, authors |-> <<>>, year |-> <<>>, journal |-> <<>>,
     doi |-> <<>>, url |-> <<>>, pdf_url |-> <<>>]

\* 'k' in it
Has(it, k) == k \in it.keys

\* [[None]], the default of .get('date-parts', [[None]])
NoDateParts == <<<<0>>>>

\* dp[0][0] raises IndexError
DatePartsRaises(dp) == dp = <<>> \/ dp[1] = <<>>

NonEmpty(x) == x # <<>>

\* str.lower() on a token
LowerTok(t) ==
    CASE t = "PDF" -> "pdf"
      [] t = ".PDF" -> ".pdf"
      [] OTHER -> t

\* 'tok' in text, for a text of tokens
Contains(text, tok) == \E i \in 1..Len(text) : text[i] = tok

\* the link filter of the CrossRef branch
IsPdfLink(l) ==
    /\ l.URL # <<>>
    /\ \/ Contains([i \in 1..Len(l.content_type) |-> LowerTok(l.content_type[i])], "pdf")
       \/ LowerTok(l.URL[Len(l.URL)]) = ".pdf"

\* for l in it.get('link', []) or []: the first PDF link's URL, else None
first_pdf_link(links) ==
    IF \E i \in 1..Len(links) : IsPdfLink(links[i])
    THEN links[CHOOSE i \in 1..Len(links) :
                  /\ IsPdfLink(links[i])
                  /\ \A j \in 1..(i - 1) : ~IsPdfLink(links[j])].URL
    ELSE <<>>

AuthorLimit == 6

\* ' '.join(filter(None, [a.get('given',''), a.get('family','')])).strip()
crossref_author_name(a) ==
    Strip(Join(SelectSeq(<<a.given, a.family>>, NonEmpty), <<" ">>))

\* the authors list of the CrossRef branch, joined with '; '
crossref_authors_s(it) ==
    LET shown == Take(IF Has(it, "author") THEN it.author ELSE <<>>, AuthorLimit)
        names == [i \in 1..Len(shown) |-> crossref_author_name(shown[i])]
    IN  Join(SelectSeq(names, NonEmpty), <<";", " ">>)

\* it.get('issued', {}).get('date-parts', [[None]])[0][0] or '', inside try/except
crossref_year(it) ==
    LET dp == IF Has(it, "issued") THEN it.issued ELSE NoDateParts
    IN  IF DatePartsRaises(dp) \/ dp[1][1] = 0 THEN <<>> ELSE IntToStr(dp[1][1])

\* it.get('container-title', [''])[0] raises IndexError on an empty list
crossref_journal_raises(it) == Has(it, "container_title") /\ it.container_title = <<>>

\* the record of the CrossRef branch of main (fetch_literature.py, _en.py)
normalize_crossref(it) ==
    [raised |-> crossref_journal_raises(it),
     doi |-> IF Has(it, "DOI") THEN it.DOI ELSE <<>>,
     title |-> IF Has(it, "title") /\ it.title # <<>> THEN Join(it.title, <<" ">>) ELSE <<>>,
     authors_s |-> crossref_authors_s(it),
     year |-> crossref_year(it),
     journal |-> IF Has(it, "container_title") /\ it.container_title # <<>>
                 THEN it.container_title[1] ELSE <<>>,
     abstract |-> IF Has(it, "abstract") THEN it.abstract ELSE <<>>,
     url_field |-> IF Has(it, "URL") THEN it.URL ELSE <<>>,
     pdf_url |-> first_pdf_link(IF Has(it, "link") THEN it.link ELSE <<>>)]

\* the record of the LibGen branch of main
normalize_libgen(it) ==
    [raised |-> FALSE,
     doi |-> IF Has(it, "doi") THEN it.doi ELSE <<>>,
     title |-> IF Has(it, "title") THEN it.title_s ELSE <<>>,
     authors_s |-> IF Has(it, "authors") THEN it.authors ELSE <<>>,
     year |-> IF Has(it, "year") THEN it.year ELSE <<>>,
     journal |-> IF Has(it, "journal") THEN it.journal ELSE <<>>,
     abstract |-> IF Has(it, "abstract") THEN it.abstract ELSE <<>>,
     url_field |-> IF Has(it, "url") THEN it.url ELSE <<>>,
     pdf_url |-> IF Has(it, "pdf_url") THEN it.pdf_url ELSE <<>>]

\* the record of the PubMed branch of main (fetch_literature_en.py)
normalize_pubmed(it) == [normalize_libgen(it) EXCEPT !.pdf_url = <<>>]

\* the if/elif/else on the item's keys
normalize(v, it) ==
    IF Has(it, "DOI") THEN normalize_crossref(it)
    ELSE IF v = "en" /\ ~Has(it, "pdf_url") THEN normalize_pubmed(it)
    ELSE normalize_libgen(it)

TitleLimit == 50

Anon == <<"a", "n", "o", "n">>

DotPdf == <<".", "p", "d", "f">>

\* authors_s.split(';')[0].strip().split()
first_author_words(authors_s) == Words(Strip(SplitFirst(authors_s, ";")))

\* ...[-1] raises IndexError when the first author holds no word
last_author_raises(authors_s) == authors_s # <<>> /\ first_author_words(authors_s) = <<>>

last_author(authors_s) ==
    LET w == first_author_words(authors_s)
    IN  IF authors_s = <<>> THEN Anon ELSE IF w = <<>> THEN <<>> ELSE w[Len(w)]

\* re.sub(r'\W+', '_', title)[:50]
short_title(title) == Take(SubNonWordRuns(title), TitleLimit)

\* pdf_name of main (fetch_literature.py, _en.py), from the normalized record
pdf_name(r) ==
    LET base == IF r.year # <<>>
                THEN r.year \o <<"_">> \o last_author(r.authors_s) \o <<"_">> \o short_title(r.title)
                ELSE last_author(r.authors_s) \o <<"_">> \o short_title(r.title)
    IN  sanitize_filename_vi(base) \o DotPdf

(***************************************************************************)
(* process_items of fetch_literature_fr.py                                 *)
(***************************************************************************)
Unknown == <<"U", "n", "k", "n", "o", "w", "n">>

DoiOrg == <<"https://doi.org/">>

\* f"{a.get('given', '')} {a.get('family', '')}".strip(), joined with '; '
fr_authors(it) ==
    LET as == IF Has(it, "author") THEN it.author ELSE <<>>
    IN  Join([i \in 1..Len(as) |-> Strip(as[i].given \o <<" ">> \o as[i].family)],
             <<";", " ">>)

fr_print(it) == IF Has(it, "published_print") THEN it.published_print ELSE NoDateParts

fr_online(it) == IF Has(it, "published_online") THEN it.published_online ELSE NoDateParts

\* the year expression raises IndexError: nothing catches it
fr_year_raises(it) ==
    \/ DatePartsRaises(fr_print(it))
    \/ (fr_print(it)[1][1] = 0 /\ DatePartsRaises(fr_online(it)))

\* published-print's year or published-online's year or ''
fr_year(it) ==
    IF fr_year_raises(it) THEN <<>>
    ELSE IF fr_print(it)[1][1] # 0 THEN IntToStr(fr_print(it)[1][1])
    ELSE IF fr_online(it)[1][1] # 0 THEN IntToStr(fr_online(it)[1][1])
    ELSE <<>>

\* the publisher PDF URL built from the DOI, or None
fr_pdf_url(doi, url) ==
    IF Contains(url, "sciencedirect")
    THEN <<"https://www.sciencedirect.com/science/article/pii/">> \o doi
    ELSE IF Contains(url, "asm.org")
    THEN <<"https://journals.asm.org/doi/pdf/10.1128/", doi[Len(doi)]>>
    ELSE IF Contains(url, "oup.com")
    THEN <<"https://academic.oup.com/", doi[Len(doi)], ".pdf">>
    ELSE <<>>

normalize_fr(it) ==
    LET doi == IF Has(it, "DOI") THEN it.DOI ELSE <<>>
        url == IF doi # <<>> THEN DoiOrg \o doi ELSE <<>>
    IN  [raised |-> fr_year_raises(it),
         doi |-> doi,
         title |-> IF Has(it, "title") /\ it.title # <<>> THEN it.title[1] ELSE <<>>,
         authors_s |-> fr_authors(it),
         year |-> fr_year(it),
         journal |-> IF Has(it, "container_title") /\ it.container_title # <<>>
                     THEN it.container_title[1] ELSE <<>>,
         abstract |-> <<>>,
         url_field |-> url,
         pdf_url |-> IF doi # <<>> THEN fr_pdf_url(doi, url) ELSE <<>>]

\* filename of process_items, from the normalized record
fr_filename(r) ==
    sanitize_filename_fr(
        r.year \o <<"_">>
        \o (IF r.authors_s # <<>> THEN SplitFirst(r.authors_s, ";") ELSE Unknown)
        \o <<"_">> \o Take(r.title, TitleLimit) \o DotPdf)

\* the file name a script derives for an item
derived_filename(v, it) ==
    IF v = "fr" THEN fr_filename(normalize_fr(it)) ELSE pdf_name(normalize(v, it))

(***************************************************************************)
(* The network.  A response is what one HTTP request comes to: net is      *)
(* "ok" (status 200, a well-formed body whose parsed entries are items)    *)
(* or the way the request failed.                                          *)
(***************************************************************************)
Failures == {"connection", "http_status", "timeout_connect", "timeout_read", "malformed"}

\* what urllib raises as URLError (HTTPError is a URLError; an error while
\* connecting is wrapped into one); a timeout while the response is read and
\* a body that does not decode are raised as they are
UrlErrors == {"connection", "http_status", "timeout_connect"}

Response(net, items) == [net |-> net, items |-> items]

\* what a call comes to: an exception leaves it, or it returns None or a list
Raised == [raised |-> TRUE, none |-> FALSE, items |-> <<>>]

ReturnedNone == [raised |-> FALSE, none |-> TRUE, items |-> <<>>]

Returned(items) == [raised |-> FALSE, none |-> FALSE, items |-> items]

\* query_crossref of fetch_literature.py and fetch_literature_en.py: one
\* request; only URLError is caught, and None is returned for it
query_crossref(resp) ==
    IF resp.net = "ok" THEN Returned(resp.items)
    ELSE IF resp.net \in UrlErrors THEN ReturnedNone
    ELSE Raised

\* resp['message'].get('items', []) if resp and 'message' in resp else []
crossref_items_of(r) == IF r.none THEN <<>> ELSE r.items

PageRows == 50

Min(a, b) == IF a < b THEN a ELSE b

\* the while loop of query_crossref of fetch_literature_fr.py; script[i] is
\* the response to the i-th request
RECURSIVE query_crossref_fr_loop(_, _, _, _)
query_crossref_fr_loop(script, i, all_items, max_results) ==
    IF ~(Len(all_items) < max_results) \/ i > Len(script) THEN all_items
    ELSE IF script[i].net # "ok" THEN all_items
    ELSE IF Len(script[i].items) < PageRows THEN all_items \o script[i].items
    ELSE query_crossref_fr_loop(script, i + 1, all_items \o script[i].items, max_results)

\* all_items[:max_results]; a negative max_results drops items from the end
SliceTo(xs, n) ==
    IF n >= 0 THEN Take(xs, n)
    ELSE SubSeq(xs, 1, IF Len(xs) + n > 0 THEN Len(xs) + n ELSE 0)

query_crossref_fr(script, max_results) ==
    Returned(SliceTo(query_crossref_fr_loop(script, 1, <<>>, max_results), max_results))

\* the item query_pubmed builds from a DocSum.  An Element without child
\* elements is falsy, so the tests `if doc.find(...)` of PubDate, Source and Id
\* fail and year, journal and url are ''
pubmed_item(doc) ==
    [EmptyItem EXCEPT
        !.keys = {"title", "authors", "year", "journal", "doi", "url", "abstract"},
        !.title_s = doc.Title,
        !.authors = Join(doc.Authors, <<";", " ">>),
        !.doi = doc.DOI]

\* query_pubmed: script[1] answers esearch (its items are the ids found),
\* script[2] esummary (its items are the DocSums)
query_pubmed(script) ==
    IF script[1].net # "ok" THEN Returned(<<>>)
    ELSE IF script[1].items = <<>> THEN ReturnedNone
    ELSE IF script[2].net # "ok" THEN Returned(<<>>)
    ELSE Returned([i \in 1..Len(script[2].items) |-> pubmed_item(script[2].items[i])])

LibgenMirrors == 10

\* query_libgen of fetch_literature.py: the first mirror whose page parses to
\* at least one item; script[i] is the response of mirror i
RECURSIVE query_libgen_loop(_, _)
query_libgen_loop(script, i) ==
    IF i > LibgenMirrors THEN <<>>
    ELSE IF script[i].net = "ok" /\ script[i].items # <<>> THEN script[i].items
    ELSE query_libgen_loop(script, i + 1)

query_libgen_vi(script) == Returned(query_libgen_loop(script, 1))

\* query_libgen of fetch_literature_en.py: the second definition replaces the
\* first, so one mirror is asked
query_libgen_en(script) ==
    IF script[1].net = "ok" THEN Returned(script[1].items) ELSE Returned(<<>>)

\* query_libgen of fetch_literature_fr.py: a placeholder that finds nothing
query_libgen_fr(script) == Returned(<<>>)

query_libgen(v, script) ==
    CASE v = "vi" -> query_libgen_vi(script)
      [] v = "en" -> query_libgen_en(script)
      [] v = "fr" -> query_libgen_fr(script)

ScihubLimit == 10

ScihubMirrorsVi == 9

ScihubMirrorsEn == 3

ScihubMirrors(v) ==
    CASE v = "vi" -> ScihubMirrorsVi
      [] v = "en" -> ScihubMirrorsEn
      [] v = "fr" -> 1

\* the PDF link of a Sci-Hub page for a DOI
ScihubPdf(doi) == <<"https://sci-hub/">> \o doi \o <<".pdf">>

\* the inner loop over mirrors: answers[b] is "pdf" when mirror b answers 200
\* with a PDF link, and otherwise why it does not
scihub_found(v, answers) == \E b \in 1..ScihubMirrors(v) : answers[b] = "pdf"

\* query_scihub of fetch_literature.py and fetch_literature_en.py: a list of
\* {'doi', 'pdf_url'}; pages[i] are the mirrors' answers for the i-th DOI
RECURSIVE query_scihub_loop(_, _, _, _)
query_scihub_loop(v, dois, pages, i) ==
    IF i > Len(dois) THEN <<>>
    ELSE IF dois[i] # <<>> /\ scihub_found(v, pages[i])
    THEN <<[doi |-> dois[i], pdf_url |-> ScihubPdf(dois[i])]>>
         \o query_scihub_loop(v, dois, pages, i + 1)
    ELSE query_scihub_loop(v, dois, pages, i + 1)

query_scihub(v, dois, pages) ==
    Returned(query_scihub_loop(v, Take(dois, ScihubLimit), pages, 1))

\* query_scihub of fetch_literature_fr.py: the list of the PDF links found,
\* one request per DOI, every exception caught
query_scihub_fr(dois, pages) ==
    Returned(SelectSeq([i \in 1..Len(dois) |->
                          IF pages[i][1] = "pdf" THEN ScihubPdf(dois[i]) ELSE <<>>],
                       NonEmpty))

(***************************************************************************)
(* The texts and items the model draws its inputs from.                    *)
(***************************************************************************)
FooBar == <<"F", "o", "o", " ", "B", "a", "r">>

FooColonBar == <<"F", "o", "o", ":", " ", "B", "a", "r">>

Baz == <<"B", "a", "z">>

Smith == <<"S", "m", "i", "t", "h">>

John == <<"J", "o", "h", "n">>

Li == <<"L", "i">>

JournalJ == <<"J">>

Doi1 == <<"10.1016", "/", "sciencedirect", "/", "a1">>

Doi2 == <<"10.1000", "/", "b2">>

Doi3 == <<"10.1000", "/", "c3">>

PdfLink == [URL |-> <<"https://host/", "a1", ".pdf">>, content_type |-> <<"application/", "pdf">>]

HtmlLink == [URL |-> <<"https://host/", "a1", ".html">>, content_type |-> <<"text/", "html">>]

\* a CrossRef work: the keys CrossRef always sends, the others as given
CrossrefWork(doi, title, given, family, year, print_year) ==
    [EmptyItem EXCEPT
        !.keys = {"DOI", "title", "author", "issued", "container_title", "URL"}
                 \cup (IF print_year # 0 THEN {"published_print"} ELSE {}),
        !.DOI = doi,
        !.title = <<title>>,
        !.author = <<[given |-> given, family |-> family]>>,
        !.issued = <<<<year>>>>,
        !.published_print = <<<<print_year>>>>,
        !.container_title = <<JournalJ>>,
        !.URL = DoiOrg \o doi]

\* a work with a PDF link; its DOI resolves to a publisher the French script knows
X1 == [CrossrefWork(Doi1, FooBar, John, Smith, 2020, 2020) EXCEPT
          !.keys = @ \cup {"link"}, !.link = <<HtmlLink, PdfLink>>]

\* a work without a PDF link and without a year
X2 == CrossrefWork(Doi2, Baz, <<>>, Li, 0, 0)

\* a work whose container-title and published-print date-parts are empty lists
X3 == [CrossrefWork(Doi3, FooColonBar, John, Li, 2020, 0) EXCEPT
          !.keys = @ \cup {"published_print"},
          !.container_title = <<>>, !.published_print = <<>>]

CrossrefCatalog == {X1, X2, X3}

\* a row of a LibGen result page, as query_libgen parses it
LibgenRow(title, authors, year, pdf_url) ==
    [EmptyItem EXCEPT
        !.keys = {"title", "authors", "year", "doi", "url", "pdf_url", "journal", "abstract"},
        !.title_s = title, !.authors = authors, !.year = year,
        !.url = pdf_url, !.pdf_url = pdf_url]

L1 == LibgenRow(FooBar, <<"S", "m", "i", "t", "h", " ", "J">>, <<"2", "0", "1", "9">>, <<"https://libgen/", "download", "1">>)

\* a row without a download link and without authors
L2 == LibgenRow(Baz, <<>>, <<>>, <<>>)

\* another edition of L1, under a title of its own and with its own link
L3 == LibgenRow(FooColonBar, <<"S", "m", "i", "t", "h", " ", "J">>, <<"2", "0", "1", "9">>, <<"https://libgen/", "download", "3">>)

LibgenCatalog == {L1, L2, L3}

\* a DocSum of PubMed's esummary
D1 == [Title |-> Baz, Authors |-> <<<<"L", "i", " ", "W">>>>, DOI |-> Doi2]

PubmedCatalog == {D1}

MaxItems == 2

\* the sequences of at most n elements of S
SeqsUpTo(S, n) == UNION {[1..k -> S] : k \in 0..n}

(***************************************************************************)
(* The output files.  A file is the rows written to it and its size; a     *)
(* row is the sequence of its fields.                                      *)
(***************************************************************************)
NoFile == [exists |-> FALSE, rows |-> <<>>, size |-> 0]

RECURSIVE FieldsSize(_)
FieldsSize(row) == IF row = <<>> THEN 0 ELSE Len(Head(row)) + 1 + FieldsSize(Tail(row))

\* what a row adds to the size of its file: its fields, a separator after
\* each but the last, and the line terminator
RowSize(row) == FieldsSize(row) + 1

\* open(path, 'a'): the file exists from then on
OpenAppend(f) == [f EXCEPT !.exists = TRUE]

WriteRow(f, row) == [f EXCEPT !.rows = Append(@, row), !.size = @ + RowSize(row)]

MetadataHeader ==
    <<<<"filename">>, <<"title">>, <<"authors">>, <<"year">>, <<"journal">>,
      <<"doi">>, <<"url">>, <<"abstract">>, <<"language">>>>

SummaryHeader ==
    <<<<"filename">>, <<"objective">>, <<"methods">>, <<"main_findings">>,
      <<"relevance_notes">>>>

\* the test with its outcome fixed: the header is written on every call
IsEmptyFileAlways(f) == TRUE

\* os.path.getsize(path) == 0
IsEmptyFile(f) == f.size = 0

\* the rows of a buffer reach the file when it is closed
RECURSIVE Flush(_, _)
Flush(f, rows) == IF rows = <<>> THEN f ELSE Flush(WriteRow(f, Head(rows)), Tail(rows))

\* the header is buffered whatever the size
buffered_rows_with_header(f, header, row) == <<header, row>>

\* append_metadata and append_summary between open and close: the rows the
\* csv writer buffers, the header first when getsize returns 0
buffered_rows(f, header, row) ==
    IF IsEmptyFile(f) THEN <<header, row>> ELSE <<row>>

\* append_urls: f.write(f"{url}\t{preferred}\n")
append_urls(f, url, preferred) == WriteRow(OpenAppend(f), <<url, preferred>>)

\* the header row when the file is empty, then the row
append_with_header(f, header, row) ==
    LET g == OpenAppend(f)
    IN  Flush(g, buffered_rows(g, header, row))

append_metadata(f, row) == append_with_header(f, MetadataHeader, row)

append_summary(f, row) == append_with_header(f, SummaryHeader, row)

(***************************************************************************)
(* References/ is a set of [name, content]; content is "prior" for a file  *)
(* an earlier run left, "body" for a response body written by this run,    *)
(* "empty" for a file opened for writing and never written.                *)
(***************************************************************************)
\* os.path.exists(pdf_path)
Exists(d, name) == \E e \in d : e.name = name

\* open(outpath, 'wb') and what is written before the file is closed
WriteFile(d, name, content) ==
    {e \in d : e.name # name} \cup {[name |-> name, content |-> content]}

\* how a download call ends: the body is saved; urlopen raises; the body's
\* read raises after the target was opened; the body is not a PDF (checked
\* by download_pdf only)
DownloadOutcomes == {"saved", "urlopen_failed", "read_failed"}

DownloadPdfOutcomes == DownloadOutcomes \cup {"not_pdf"}

\* the outcomes in which the target was opened for writing
WritingOutcomes == {"saved", "read_failed"}

\* download_file and download_pdf: the directory after the call
download_file(d, name, outcome) ==
    CASE outcome = "saved" -> WriteFile(d, name, "body")
      [] outcome = "read_failed" -> WriteFile(d, name, "empty")
      [] OTHER -> d

\* the value download_file returns; every exception is caught
download_ok(outcome) == outcome = "saved"

\* a download whose failure is not caught
download_raises_on_failure(outcome) == outcome # "saved"

\* whether an exception leaves download_file / download_pdf: the whole body
\* is inside try/except Exception
download_raises(outcome) == FALSE

\* the rows process_items has written and not yet flushed
NoRows == [urls |-> <<>>, metadata |-> <<>>, summary |-> <<>>]

(***************************************************************************)
(* Specifications of single calls: Init draws the script and the argument, *)
(* the one action makes the call.                                          *)
(***************************************************************************)
\* the variables of a run, while no run is in progress
IdleRun ==
    /\ keywords_md = <<>> /\ kws = <<>> /\ max_arg = 0
    /\ page = 0 /\ offset = 0
    /\ crossref_items = <<>> /\ pubmed_items = <<>>
    /\ libgen_items = <<>> /\ scihub_items = <<>>
    /\ count = 0 /\ downloaded = FALSE /\ existed = FALSE
    /\ buf = NoRows /\ disk = {} /\ attempts = {}

Idle == IdleRun /\ urls = NoFile /\ metadata = NoFile /\ summary = NoFile

MaxStrLen == 3

SanitizeAlphabet == {"a", "Z", "7", "_", "-", ".", " ", "/", "é"}

\* a text one character short of the limit
LongText == [i \in 1..(NameLimit - 1) |-> "a"]

SanitizeInputs ==
    LET short == SeqsUpTo(SanitizeAlphabet, MaxStrLen)
    IN  short \cup {t \o LongText : t \in short}

InitSanitize ==
    /\ variant \in Variants /\ pc = "call"
    /\ arg \in SanitizeInputs /\ ret = <<>>
    /\ Idle

CallSanitize ==
    /\ pc = "call"
    /\ ret' = sanitize_filename(variant, arg)
    /\ pc' = "returned"
    /\ UNCHANGED <<variant, arg, mainvars>>

SpecSanitize == InitSanitize /\ [][CallSanitize]_vars

LongTitle == [i \in 1..(TitleLimit + MaxStrLen) |-> IF i % 4 = 0 THEN " " ELSE "x"]

FilenameInputs ==
    {CrossrefWork(Doi1, title, given, family, year, print_year) :
        title \in {FooBar, FooColonBar, LongTitle}, given \in {<<>>, John},
        family \in {Smith, Li}, year \in {1999, 2020}, print_year \in {0, 1999, 2020}}

InitFilename ==
    /\ variant \in Variants /\ pc = "call"
    /\ arg \in {it \in FilenameInputs :
                  it.published_print[1][1] \in {0, it.issued[1][1]}}
    /\ ret = <<>>
    /\ Idle

CallFilename ==
    /\ pc = "call"
    /\ ret' = derived_filename(variant, arg)
    /\ pc' = "returned"
    /\ UNCHANGED <<variant, arg, mainvars>>

SpecFilename == InitFilename /\ [][CallFilename]_vars

MaxLines == 4

\* a heading each script recognizes as its section's
SectionHeading(v) ==
    CASE v = "vi" -> HeadingVi
      [] v = "en" -> <<"#", "#", " ", "E", "n", "g", "l", "i", "s", "h", " ", "k", "e", "y", "w", "o", "r", "d", "s">>
      [] v = "fr" -> <<"#", "#", " ", "F", "r", "a", "n", SqrtSign, "ß", "a", "i", "s">>

KeywordLines(v) ==
    {SectionHeading(v), <<>>, <<"#", "#", " ", "O", "t", "h", "e", "r">>, <<"#", "#", "#", " ", "s", "u", "b">>, <<" ", " ", "-", " ", "a", " ">>, <<"b">>,
     <<"c", ":">>, <<"-", "-", "-">>, <<"-">>}

KeywordFiles(v) == SeqsUpTo(KeywordLines(v), MaxLines)

InitKeywords ==
    /\ variant \in Variants /\ pc = "call"
    /\ arg \in KeywordFiles(variant) /\ ret = <<>>
    /\ Idle

CallLoader ==
    /\ pc = "call"
    /\ ret' = load_keywords(variant, arg)
    /\ pc' = "returned"
    /\ UNCHANGED <<variant, arg, mainvars>>

SpecKeywords == InitKeywords /\ [][CallLoader]_vars

(***************************************************************************)
(* main(): the run of one script.                                          *)
(***************************************************************************)
RecordCap == 250

MaxPages == 5

DefaultMaxEn == 200

DefaultMaxFr == 250

ScihubBatchEn == 20

MaxArg == 1

Max(a, b) == IF a > b THEN a ELSE b

\* the values of --max the runs are started with
MaxChoices(v) ==
    CASE v = "vi" -> {0}
      [] v = "en" -> (0..MaxArg) \cup {DefaultMaxEn, -2}
      [] v = "fr" -> (0..MaxArg) \cup {DefaultMaxFr, -2}

\* keywords.md without the script's section, with an empty section, with a
\* section of one keyword
MainKeywordFiles(v) ==
    {<<<<"#", "#", " ", "O", "t", "h", "e", "r">>, <<"b">>>>,
     <<SectionHeading(v)>>,
     <<SectionHeading(v), <<" ", "-", " ", "a", " ">>>>}

\* the items in another order: LibGen's first
RunItemsLibgenFirst == libgen_items \o crossref_items \o pubmed_items

\* the items the record loop iterates over
RunItems ==
    CASE variant = "vi" -> crossref_items \o libgen_items
      [] variant = "en" -> crossref_items \o pubmed_items \o libgen_items
      [] variant = "fr" -> crossref_items

\* the count at which the record loop breaks
Cap == IF variant = "vi" THEN RecordCap ELSE max_arg

\* the record of the item in hand
Record ==
    IF variant = "fr" THEN normalize_fr(RunItems[count + 1])
    ELSE normalize(variant, RunItems[count + 1])

\* pdf_url or url_field or ''
PreferredUrl(r) == IF r.pdf_url # <<>> THEN r.pdf_url ELSE r.url_field

Language(v) == IF v = "en" THEN <<"e", "n">> ELSE <<>>

\* the rows of a record whose file name is name
metadata_row(v, r, name) ==
    <<name, r.title, r.authors_s, r.year, r.journal, r.doi, PreferredUrl(r),
      r.abstract, Language(v)>>

summary_row(name) == <<name, <<>>, <<>>, <<>>, <<>>>>

\* the three appends without the test of preferred_url
persist_every_url(v, f, r) ==
    LET name == pdf_name(r)
    IN  [urls |-> append_urls(f.urls, PreferredUrl(r), name),
         metadata |-> append_metadata(f.metadata, metadata_row(v, r, name)),
         summary |-> append_summary(f.summary, summary_row(name))]

\* the three appends of the record loop of fetch_literature.py and _en.py
persist(v, f, r) ==
    LET name == pdf_name(r)
    IN  [urls |-> IF PreferredUrl(r) # <<>>
                  THEN append_urls(f.urls, PreferredUrl(r), name) ELSE f.urls,
         metadata |-> append_metadata(f.metadata, metadata_row(v, r, name)),
         summary |-> append_summary(f.summary, summary_row(name))]

\* the rows process_items writes for a record
fr_metadata_row(r) == <<r.title, r.authors_s, r.year, r.journal, r.doi, r.url_field>>

fr_summary_row(r) == <<r.title, r.url_field>>

\* url in [line.strip() for line in open(urls_file, 'r').readlines()]: the
\* rows of the file as it is on disk
UrlOnDisk(f, url) == \E i \in 1..Len(f.rows) : f.rows[i] = <<url>>

\* the rows process_items buffers for a record
process_item(f, b, r) ==
    [urls |-> IF r.url_field # <<>> /\ ~UrlOnDisk(f, r.url_field)
              THEN Append(b.urls, <<r.url_field>>) ELSE b.urls,
     metadata |-> Append(b.metadata, fr_metadata_row(r)),
     summary |-> Append(b.summary, fr_summary_row(r))]

\* what earlier runs of the script on the items X1 and X2 have left
PriorFiles ==
    [v \in Variants |->
        IF v = "fr"
        THEN LET b == process_item(NoFile, process_item(NoFile, NoRows, normalize_fr(X1)),
                                   normalize_fr(X2))
             IN  [urls |-> Flush(OpenAppend(NoFile), b.urls),
                  metadata |-> Flush(OpenAppend(NoFile), b.metadata),
                  summary |-> Flush(OpenAppend(NoFile), b.summary)]
        ELSE persist(v, persist(v, [urls |-> NoFile, metadata |-> NoFile, summary |-> NoFile],
                                normalize(v, X1)),
                     normalize(v, X2))]

PriorDisk ==
    [v \in Variants |->
        {[name |-> derived_filename(v, X1), content |-> "prior"],
         [name |-> derived_filename(v, X2), content |-> "prior"]}]

Init ==
    /\ variant \in Variants /\ pc = "start"
    /\ arg = <<>> /\ ret = <<>>
    /\ keywords_md \in MainKeywordFiles(variant) /\ kws = <<>>
    /\ max_arg \in MaxChoices(variant)
    /\ page = 0 /\ offset = 0
    /\ crossref_items = <<>> /\ pubmed_items = <<>>
    /\ libgen_items = <<>> /\ scihub_items = <<>>
    /\ count = 0 /\ downloaded = FALSE /\ existed = FALSE
    /\ \E prior \in BOOLEAN :
         /\ urls = IF prior THEN PriorFiles[variant].urls ELSE NoFile
         /\ metadata = IF prior THEN PriorFiles[variant].metadata ELSE NoFile
         /\ summary = IF prior THEN PriorFiles[variant].summary ELSE NoFile
         /\ disk = IF prior THEN PriorDisk[variant] ELSE {}
    /\ buf = NoRows /\ attempts = {}

\* kws = read_keywords(); if not kws: sys.exit(1) (fr: return)
LoadKeywords ==
    /\ pc = "start"
    /\ kws' = load_keywords(variant, keywords_md)
    /\ pc' = IF kws' = <<>> THEN "exit" ELSE "crossref"
    /\ UNCHANGED <<variant, arg, ret, keywords_md, max_arg, queryvars, count, downloaded,
                   existed, filevars, attempts>>

\* what the CrossRef server answers to a request for at most limit rows
CrossrefResponses(limit) ==
    {Response("ok", p) : p \in SeqsUpTo(CrossrefCatalog, Min(MaxItems, Max(limit, 0)))}
    \cup {Response(f, <<>>) : f \in Failures}

\* a page of as many items as a request asks for, and a page of one more
FullPage == [i \in 1..PageRows |-> X2]

OverlongPage == Append(FullPage, X2)

\* arg of a run against a server that has pages of results to give and does
\* not always keep to the rows asked for
LargeServer == <<"large">>

LongResponses ==
    IF arg = LargeServer THEN {Response("ok", FullPage), Response("ok", OverlongPage)} ELSE {}

\* the entry a CrossRef request leaves in the history ret: the rows and the
\* offset asked for, and the number of items received, -1 for none
Request(rows, offset_, resp) ==
    [rows |-> rows, offset |-> offset_,
     got |-> IF resp.net = "ok" THEN Len(resp.items) ELSE -1]

\* one turn of the pagination loop of fetch_literature.py
CrossrefPage ==
    /\ pc = "crossref" /\ variant = "vi" /\ page < MaxPages
    /\ \E resp \in CrossrefResponses(PageRows) \cup LongResponses :
         LET r == query_crossref(resp)
             items == crossref_items_of(r)
         IN  /\ ret' = Append(ret, Request(PageRows, offset, resp))
             /\ IF r.raised
                THEN pc' = "raised" /\ UNCHANGED <<page, offset, crossref_items>>
                ELSE IF r.none \/ items = <<>>
                THEN pc' = "libgen" /\ UNCHANGED <<page, offset, crossref_items>>
                ELSE /\ crossref_items' = crossref_items \o items
                     /\ offset' = offset + PageRows
                     /\ IF Len(items) < PageRows
                        THEN pc' = "libgen" /\ page' = page
                        ELSE /\ page' = page + 1
                             /\ pc' = IF page + 1 < MaxPages THEN "crossref" ELSE "libgen"
    /\ UNCHANGED <<variant, arg, keywords_md, kws, max_arg, pubmed_items, libgen_items,
                   scihub_items, count, downloaded, existed, filevars, attempts>>

\* resp = query_crossref(query, rows=args.max) of fetch_literature_en.py
CrossrefOnce ==
    /\ pc = "crossref" /\ variant = "en"
    /\ \E resp \in CrossrefResponses(max_arg) :
         LET r == query_crossref(resp)
         IN  IF r.raised
             THEN pc' = "raised" /\ UNCHANGED crossref_items
             ELSE pc' = "pubmed" /\ crossref_items' = crossref_items_of(r)
    /\ UNCHANGED <<variant, arg, ret, keywords_md, kws, max_arg, page, offset, pubmed_items,
                   libgen_items, scihub_items, count, downloaded, existed, filevars, attempts>>

\* the requests the while loop of query_crossref of fetch_literature_fr.py
\* makes: n items are collected and offset_ is reached before the i-th
RECURSIVE query_crossref_fr_requests(_, _, _, _, _)
query_crossref_fr_requests(script, i, n, offset_, max_results) ==
    IF ~(n < max_results) \/ i > Len(script) THEN <<>>
    ELSE LET req == Request(Min(PageRows, max_results - n), offset_, script[i])
         IN  IF script[i].net # "ok" \/ Len(script[i].items) < PageRows THEN <<req>>
             ELSE <<req>> \o query_crossref_fr_requests(script, i + 1,
                                                         n + Len(script[i].items),
                                                         offset_ + PageRows, max_results)

\* the responses to the requests of one call of query_crossref of
\* fetch_literature_fr.py: a last page after the pages a large server gives
CrossrefScripts(max_results) ==
    IF arg = LargeServer
    THEN {[i \in 1..k |-> Response("ok", IF i = o THEN OverlongPage ELSE FullPage)]
            \o <<last>> :
            k \in 0..MaxPages, o \in 0..MaxPages, last \in CrossrefResponses(PageRows)}
    ELSE {<<resp>> : resp \in CrossrefResponses(Min(PageRows, max_results))}

\* crossref_items = query_crossref(keywords, args.max) of fetch_literature_fr.py
CrossrefPaged ==
    /\ pc = "crossref" /\ variant = "fr"
    /\ \E script \in CrossrefScripts(max_arg) :
         /\ crossref_items' = query_crossref_fr(script, max_arg).items
         /\ ret' = query_crossref_fr_requests(script, 1, 0, 0, max_arg)
    /\ pc' = "libgen"
    /\ UNCHANGED <<variant, arg, keywords_md, kws, max_arg, page, offset, pubmed_items,
                   libgen_items, scihub_items, count, downloaded, existed, filevars, attempts>>

\* pubmed_items = query_pubmed(query, rows=args.max) or []
QueryPubmed ==
    /\ pc = "pubmed"
    /\ \E docs \in SeqsUpTo(PubmedCatalog, Min(1, Max(max_arg, 0))),
          n1 \in {"ok"} \cup Failures, n2 \in {"ok"} \cup Failures :
         LET found == IF n1 = "ok" THEN docs ELSE <<>>
             script == <<Response(n1, found),
                         Response(n2, IF n2 = "ok" THEN found ELSE <<>>)>>
         IN  pubmed_items' = query_pubmed(script).items
    /\ pc' = "libgen"
    /\ UNCHANGED <<variant, arg, ret, keywords_md, kws, max_arg, page, offset, crossref_items,
                   libgen_items, scihub_items, count, downloaded, existed, filevars, attempts>>

LibgenRows == 20

\* rows_html[1:rows+1] without the header row: the result rows that are parsed
libgen_rows(page_rows, rows) ==
    IF rows >= 0 THEN SliceTo(page_rows, rows) ELSE SliceTo(page_rows, rows + 1)

\* the result rows of a LibGen page; LibGen sends its own number of rows
\* whatever number is asked for
LibgenPages == SeqsUpTo({L1, L2}, 1) \cup {<<L1, L3>>}

\* libgen_items = query_libgen(query, rows=20), rows=min(args.max, 20) in
\* fetch_literature_en.py: the first k mirrors fail
QueryLibgen ==
    /\ pc = "libgen"
    /\ \E k \in 0..LibgenMirrors, f \in Failures, page_rows \in LibgenPages :
         LET rows == IF variant = "en" THEN Min(max_arg, LibgenRows) ELSE LibgenRows
             script == [i \in 1..LibgenMirrors |->
                          IF i <= k THEN Response(f, <<>>)
                          ELSE Response("ok", libgen_rows(page_rows, rows))]
         IN  libgen_items' = query_libgen(variant, script).items
    /\ pc' = "scihub"
    /\ UNCHANGED <<variant, arg, ret, keywords_md, kws, max_arg, page, offset, crossref_items,
                   pubmed_items, scihub_items, count, downloaded, existed, filevars, attempts>>

\* the DOI the English script hands to Sci-Hub for an item
item_doi(it) ==
    IF Has(it, "DOI") /\ it.DOI # <<>> THEN it.DOI
    ELSE IF Has(it, "doi") THEN it.doi ELSE <<>>

DOI_of(it) == IF Has(it, "DOI") THEN it.DOI ELSE <<>>

doi_of(it) == IF Has(it, "doi") THEN it.doi ELSE <<>>

\* the list dois of main
collect_dois(v, crossref, pubmed, libgen) ==
    CASE v = "vi" ->
            SelectSeq([i \in 1..Len(crossref) |-> DOI_of(crossref[i])], NonEmpty)
            \o SelectSeq([i \in 1..Len(libgen) |-> doi_of(libgen[i])], NonEmpty)
      [] v = "en" ->
            SelectSeq([i \in 1..Len(crossref \o pubmed) |-> item_doi((crossref \o pubmed)[i])],
                      NonEmpty)
      [] v = "fr" ->
            SelectSeq([i \in 1..Len(crossref) |-> DOI_of(crossref[i])], NonEmpty)

\* why a Sci-Hub mirror yields no PDF link
ScihubMisses == {"error", "not_200", "no_link"}

\* scihub_items = query_scihub(dois): Sci-Hub has the PDFs of the DOIs in
\* found, the mirrors before b do not answer
QueryScihub ==
    /\ pc = "scihub"
    /\ LET dois == collect_dois(variant, crossref_items, pubmed_items, libgen_items)
           asked == IF variant = "en" THEN SliceTo(dois, Min(max_arg, ScihubBatchEn))
                    ELSE dois
       IN  IF dois = <<>> /\ variant # "fr"
           THEN scihub_items' = <<>>
           ELSE \E found \in SUBSET (1..Len(asked)), b \in 1..ScihubMirrors(variant),
                   miss \in ScihubMisses :
                  LET pages == [i \in 1..Len(asked) |->
                                  [m \in 1..ScihubMirrors(variant) |->
                                      IF i \in found /\ m >= b THEN "pdf" ELSE miss]]
                  IN  scihub_items' = IF variant = "fr"
                                      THEN query_scihub_fr(asked, pages).items
                                      ELSE query_scihub(variant, asked, pages).items
    /\ pc' = IF variant = "fr" THEN "process"
             ELSE IF RunItems = <<>> THEN "done" ELSE "persist"
    /\ UNCHANGED <<variant, arg, ret, keywords_md, kws, max_arg, page, offset, crossref_items,
                   pubmed_items, libgen_items, count, downloaded, existed, filevars, attempts>>

\* the record loop of fetch_literature.py and _en.py, from the item's
\* normalization to the three appends
Persist ==
    /\ pc = "persist"
    /\ LET r == Record
       IN  IF r.raised \/ last_author_raises(r.authors_s)
           THEN /\ pc' = "raised"
                /\ UNCHANGED <<urls, metadata, summary, downloaded, existed>>
           ELSE LET f == persist(variant,
                                 [urls |-> urls, metadata |-> metadata, summary |-> summary], r)
                IN  /\ urls' = f.urls /\ metadata' = f.metadata /\ summary' = f.summary
                    /\ downloaded' = FALSE
                    /\ existed' = Exists(disk, pdf_name(r))
                    /\ pc' = "direct"
    /\ UNCHANGED <<variant, arg, ret, keywords_md, kws, max_arg, queryvars, count, buf, disk,
                   attempts>>

\* the entry a download call leaves in the history
Attempt(via, outcome) ==
    [rec |-> count + 1, via |-> via, existed |-> existed, outcome |-> outcome]

\* if pdf_url: if not os.path.exists(pdf_path): ok = download_file(pdf_url, pdf_path)
Direct ==
    /\ pc = "direct"
    /\ LET r == Record
           name == pdf_name(r)
       IN  IF r.pdf_url # <<>> /\ ~Exists(disk, name)
           THEN \E o \in DownloadOutcomes :
                  /\ disk' = download_file(disk, name, o)
                  /\ attempts' = attempts \cup {Attempt("direct", o)}
                  /\ IF download_raises(o)
                     THEN pc' = "raised" /\ downloaded' = downloaded
                     ELSE /\ pc' = "fallback"
                          /\ downloaded' = (variant = "vi" /\ download_ok(o))
           ELSE /\ downloaded' = (variant = "vi" /\ r.pdf_url # <<>>)
                /\ pc' = "fallback"
                /\ UNCHANGED <<disk, attempts>>
    /\ UNCHANGED <<variant, arg, ret, keywords_md, kws, max_arg, queryvars, count, existed,
                   urls, metadata, summary, buf>>

\* next((s['pdf_url'] for s in scihub_items if s['doi'] == doi), None)
scihub_pdf_of(items, doi) ==
    IF \E i \in 1..Len(items) : items[i].doi = doi
    THEN items[CHOOSE i \in 1..Len(items) :
                  /\ items[i].doi = doi
                  /\ \A j \in 1..(i - 1) : items[j].doi # doi].pdf_url
    ELSE <<>>

\* the Sci-Hub fallback: `if not downloaded and doi` (fetch_literature.py),
\* `elif doi` (fetch_literature_en.py)
Fallback ==
    /\ pc = "fallback"
    /\ LET r == Record
           name == pdf_name(r)
           wanted == /\ r.doi # <<>>
                     /\ IF variant = "vi" THEN ~downloaded ELSE r.pdf_url = <<>>
           scihub_pdf == scihub_pdf_of(scihub_items, r.doi)
       IN  IF wanted /\ scihub_pdf # <<>> /\ ~Exists(disk, name)
           THEN \E o \in DownloadOutcomes :
                  /\ disk' = download_file(disk, name, o)
                  /\ attempts' = attempts \cup {Attempt("scihub", o)}
                  /\ pc' = IF download_raises(o) THEN "raised" ELSE "advance"
           ELSE pc' = "advance" /\ UNCHANGED <<disk, attempts>>
    /\ UNCHANGED <<variant, arg, ret, keywords_md, kws, max_arg, queryvars, count, downloaded,
                   existed, urls, metadata, summary, buf>>

\* count += 1; if count >= cap: break; and the end of the for loop
Advance ==
    /\ pc = "advance"
    /\ count' = count + 1
    /\ pc' = IF count + 1 >= Cap \/ count + 1 >= Len(RunItems) THEN "done" ELSE "persist"
    /\ UNCHANGED <<variant, arg, ret, keywords_md, kws, max_arg, queryvars, downloaded,
                   existed, filevars, attempts>>

\* process_items: the three files are opened for appending
ProcessOpen ==
    /\ pc = "process"
    /\ urls' = OpenAppend(urls)
    /\ metadata' = OpenAppend(metadata)
    /\ summary' = OpenAppend(summary)
    /\ pc' = "item"
    /\ UNCHANGED <<variant, arg, ret, keywords_md, kws, max_arg, queryvars, count, downloaded,
                   existed, buf, disk, attempts>>

\* process_items: the files are closed, at the end of the loop or when an
\* exception leaves the with block
ProcessClose(b) ==
    /\ urls' = Flush(urls, b.urls)
    /\ metadata' = Flush(metadata, b.metadata)
    /\ summary' = Flush(summary, b.summary)
    /\ buf' = NoRows

\* process_items: one item, from its fields to its three rows
ProcessItem ==
    /\ pc = "item"
    /\ IF count >= Len(RunItems)
       THEN ProcessClose(buf) /\ pc' = "done" /\ existed' = existed
       ELSE LET r == Record
            IN  IF r.raised
                THEN ProcessClose(buf) /\ pc' = "raised" /\ existed' = existed
                ELSE /\ buf' = process_item(urls, buf, r)
                     /\ existed' = Exists(disk, fr_filename(r))
                     /\ pc' = "download"
                     /\ UNCHANGED <<urls, metadata, summary>>
    /\ UNCHANGED <<variant, arg, ret, keywords_md, kws, max_arg, queryvars, count, downloaded,
                   disk, attempts>>

\* process_items: if doi: ... if pdf_url: download_pdf(pdf_url, filename)
ProcessDownload ==
    /\ pc = "download"
    /\ LET r == Record
       IN  IF r.doi # <<>> /\ r.pdf_url # <<>>
           THEN \E o \in DownloadPdfOutcomes :
                  /\ disk' = download_file(disk, fr_filename(r), o)
                  /\ attempts' = attempts \cup {Attempt("publisher", o)}
                  /\ IF download_raises(o)
                     THEN ProcessClose(buf) /\ pc' = "raised" /\ count' = count
                     ELSE /\ pc' = "item" /\ count' = count + 1
                          /\ UNCHANGED <<urls, metadata, summary, buf>>
           ELSE /\ pc' = "item" /\ count' = count + 1
                /\ UNCHANGED <<disk, attempts, urls, metadata, summary, buf>>
    /\ UNCHANGED <<variant, arg, ret, keywords_md, kws, max_arg, queryvars, downloaded,
                   existed>>

Next ==
    \/ LoadKeywords
    \/ CrossrefPage
    \/ CrossrefOnce
    \/ CrossrefPaged
    \/ QueryPubmed
    \/ QueryLibgen
    \/ QueryScihub
    \/ Persist
    \/ Direct
    \/ Fallback
    \/ Advance
    \/ ProcessOpen
    \/ ProcessItem
    \/ ProcessDownload

Spec == Init /\ [][Next]_vars

(***************************************************************************)
(* Specifications of calls of the append helpers and of the query          *)
(* functions.                                                              *)
(***************************************************************************)
MaxAppends == 3

\* the rows the record loop hands to append_metadata and append_summary
AppendedItems == {X1, X2, L1, L2}

\* arg is the history of the calls made, each [fn, row]
InitAppend ==
    /\ variant \in {"vi", "en"} /\ pc = "call"
    /\ arg = <<>> /\ ret = <<>>
    /\ IdleRun
    /\ urls = NoFile
    /\ metadata \in {NoFile, OpenAppend(NoFile)}
    /\ summary \in {NoFile, OpenAppend(NoFile)}

CallAppendMetadata ==
    /\ pc = "call" /\ Len(arg) < MaxAppends
    /\ \E it \in AppendedItems :
         LET r == normalize(variant, it)
             row == metadata_row(variant, r, pdf_name(r))
         IN  /\ metadata' = append_metadata(metadata, row)
             /\ arg' = Append(arg, [fn |-> "append_metadata", row |-> row])
    /\ UNCHANGED <<variant, pc, ret, keywords_md, kws, max_arg, queryvars, count, downloaded,
                   existed, urls, summary, buf, disk, attempts>>

CallAppendSummary ==
    /\ pc = "call" /\ Len(arg) < MaxAppends
    /\ \E it \in AppendedItems :
         LET row == summary_row(pdf_name(normalize(variant, it)))
         IN  /\ summary' = append_summary(summary, row)
             /\ arg' = Append(arg, [fn |-> "append_summary", row |-> row])
    /\ UNCHANGED <<variant, pc, ret, keywords_md, kws, max_arg, queryvars, count, downloaded,
                   existed, urls, metadata, buf, disk, attempts>>

NextAppend == CallAppendMetadata \/ CallAppendSummary

SpecAppend == InitAppend /\ [][NextAppend]_vars

\* the DOIs handed to query_scihub
ScihubDois == SeqsUpTo({Doi1, Doi2}, MaxItems)

\* the calls of the query functions of script v: the function, the responses
\* to its requests, and for query_scihub the DOIs and the mirrors' answers
QueryCalls(v) ==
    {[fn |-> "query_crossref", script |-> <<r>>, dois |-> <<>>, pages |-> <<>>] :
        r \in CrossrefResponses(MaxItems)}
    \cup {[fn |-> "query_pubmed",
           script |-> <<Response(n1, IF n1 = "ok" THEN docs ELSE <<>>),
                        Response(n2, IF n1 = "ok" /\ n2 = "ok" THEN docs ELSE <<>>)>>,
           dois |-> <<>>, pages |-> <<>>] :
            docs \in (IF v = "en" THEN SeqsUpTo(PubmedCatalog, 1) ELSE {}),
            n1 \in {"ok"} \cup Failures, n2 \in {"ok"} \cup Failures}
    \cup {[fn |-> "query_libgen",
           script |-> [i \in 1..LibgenMirrors |->
                          IF i <= k THEN Response(f, <<>>) ELSE Response("ok", items)],
           dois |-> <<>>, pages |-> <<>>] :
            k \in 0..LibgenMirrors, f \in Failures, items \in SeqsUpTo(LibgenCatalog, 1)}
    \cup {[fn |-> "query_scihub", script |-> <<>>, dois |-> d[1],
           pages |-> [i \in 1..Len(d[1]) |->
                        [m \in 1..ScihubMirrors(v) |->
                            IF i \in d[2] /\ m >= d[3] THEN "pdf" ELSE d[4]]]] :
            d \in {e \in ScihubDois \X (SUBSET (1..MaxItems)) \X (1..ScihubMirrors(v))
                          \X ScihubMisses : e[2] \subseteq 1..Len(e[1])}}

\* the query function of script v called as a says
query_call(v, a) ==
    CASE a.fn = "query_crossref" ->
            IF v = "fr" THEN query_crossref_fr(a.script, DefaultMaxFr)
            ELSE query_crossref(a.script[1])
      [] a.fn = "query_pubmed" -> query_pubmed(a.script)
      [] a.fn = "query_libgen" -> query_libgen(v, a.script)
      [] a.fn = "query_scihub" ->
            IF v = "fr" THEN query_scihub_fr(a.dois, a.pages)
            ELSE query_scihub(v, a.dois, a.pages)

InitQuery ==
    /\ variant \in Variants /\ pc = "call"
    /\ arg \in QueryCalls(variant) /\ ret = <<>>
    /\ Idle

CallQuery ==
    /\ pc = "call"
    /\ ret' = query_call(variant, arg)
    /\ pc' = "returned"
    /\ UNCHANGED <<variant, arg, mainvars>>

SpecQuery == InitQuery /\ [][CallQuery]_vars

(***************************************************************************)
(* The keyword section, stated line by line.                               *)
(***************************************************************************)
\* the stripped i-th line of keyword file f
LineAt(f, i) == Strip(f[i])

\* the heading match of each loader
IsSectionHeading(v, s) ==
    CASE v = "vi" -> s = HeadingVi
      [] v = "en" -> StartsWith(Lower(s), HeadingEn)
      [] v = "fr" -> StartsWith(Lower(s), HeadingFr)

\* the first line that is the section's heading, 0 when there is none
SectionStart(v, f) ==
    IF \E i \in 1..Len(f) : IsSectionHeading(v, LineAt(f, i))
    THEN CHOOSE i \in 1..Len(f) :
            /\ IsSectionHeading(v, LineAt(f, i))
            /\ \A j \in 1..(i - 1) : ~IsSectionHeading(v, LineAt(f, j))
    ELSE 0

\* a line of the section that is no keyword
IsSkippedLine(v, s) ==
    \/ s = <<>>
    \/ StartsWith(s, <<"#">>)
    \/ IsSectionHeading(v, s)
    \/ (v = "vi" /\ EndsWith(s, <<":">>))

\* line j ends the section that started at line start
EndsSection(v, f, start, j) ==
    LET s == LineAt(f, j) IN
    /\ ~IsSectionHeading(v, s)
    /\ CASE v = "vi" -> StartsWith(s, <<"#", "#">>)
         [] v = "en" -> StartsWith(s, <<"#", "#", " ">>)
         [] v = "fr" ->
                \/ StartsWith(s, <<"#", "#", " ">>)
                \/ StartsWith(s, <<"-", "-", "-">>)
                \/ /\ s = <<>>
                   /\ \E k \in (start + 1)..(j - 1) : ~IsSkippedLine(v, LineAt(f, k))

\* the first line that ends the section, Len(f) + 1 when none does
SectionEnd(v, f, start) ==
    IF \E j \in (start + 1)..Len(f) : EndsSection(v, f, start, j)
    THEN CHOOSE j \in (start + 1)..Len(f) :
            /\ EndsSection(v, f, start, j)
            /\ \A k \in (start + 1)..(j - 1) : ~EndsSection(v, f, start, k)
    ELSE Len(f) + 1

\* the lines at the indices K of f, in file order, list marker stripped
LinesAt(f, K) ==
    [n \in 1..Cardinality(K) |->
        StripMarker(LineAt(f, CHOOSE j \in K : Cardinality({k \in K : k <= j}) = n))]

\* the keywords of the section as each script delimits it
SectionKeywords(v, f) ==
    LET start == SectionStart(v, f)
        K == {j \in (start + 1)..(SectionEnd(v, f, start) - 1) :
                ~IsSkippedLine(v, LineAt(f, j))}
    IN  IF start = 0 THEN <<>> ELSE LinesAt(f, K)

\* a '## ' heading, of this section or of another
IsLevel2Heading(s) == StartsWith(s, <<"#", "#", " ">>)

\* the non-empty, non-heading lines between the section's heading and the
\* next '## ' heading
LinesUnderHeading(v, f) ==
    LET start == SectionStart(v, f)
        next == IF \E j \in (start + 1)..Len(f) : IsLevel2Heading(LineAt(f, j))
                THEN CHOOSE j \in (start + 1)..Len(f) :
                        /\ IsLevel2Heading(LineAt(f, j))
                        /\ \A k \in (start + 1)..(j - 1) : ~IsLevel2Heading(LineAt(f, k))
                ELSE Len(f) + 1
        K == {j \in (start + 1)..(next - 1) :
                LineAt(f, j) # <<>> /\ ~StartsWith(LineAt(f, j), <<"#">>)}
    IN  IF start = 0 THEN <<>> ELSE LinesAt(f, K)

C8_SanitizeSafeBoundedIdempotent ==
    pc = "returned" =>
        /\ \A i \in 1..Len(ret) : IsSafeChar(ret[i])
        /\ Len(ret) <= NameLimit
        /\ sanitize_filename(variant, ret) = ret

\* C9: for a CrossRef item with year Y, first author family name F (with or
\* without a given name) and title T, every script derives the file name
\* Y_F_<first 50 characters of T with non-word runs replaced by '_'>.pdf.
C9_CrossrefFilename ==
    pc = "returned" =>
        ret = IntToStr(arg.issued[1][1]) \o <<"_">> \o arg.author[1].family \o <<"_">>
              \o Take(SubNonWordRuns(arg.title[1]), TitleLimit) \o DotPdf

(***************************************************************************)
(* Claims about the append helpers and the query functions.                *)
(***************************************************************************)
IsMetadataCall(c) == c.fn = "append_metadata"

IsSummaryCall(c) == c.fn = "append_summary"

\* the table a file holds after the calls: nothing, or the header and then
\* the rows of the calls in their order
TableOf(header, calls) ==
    IF calls = <<>> THEN <<>>
    ELSE <<header>> \o [i \in 1..Len(calls) |-> calls[i].row]

\* C1: starting from an empty or absent table, after any sequence of
\* append_metadata (append_summary) calls the file holds the header row once,
\* as its first row, followed by one data row per call: a call on a non-empty
\* file writes its data row only.
C1_HeaderOnceAndFirst ==
    /\ metadata.rows = TableOf(MetadataHeader, SelectSeq(arg, IsMetadataCall))
    /\ summary.rows = TableOf(SummaryHeader, SelectSeq(arg, IsSummaryCall))
    /\ \A i \in 2..Len(metadata.rows) : metadata.rows[i] # MetadataHeader
    /\ \A i \in 2..Len(summary.rows) : summary.rows[i] # SummaryHeader

\* two appends to the metadata table and one to the summary table
C1_Witness ==
    /\ Len(SelectSeq(arg, IsMetadataCall)) = 2 /\ Len(metadata.rows) = 3
    /\ Len(SelectSeq(arg, IsSummaryCall)) = 1 /\ Len(summary.rows) = 2

\* every request of the call fails
AllRequestsFail(a) ==
    IF a.fn = "query_scihub"
    THEN /\ a.dois # <<>>
         /\ \A i \in 1..Len(a.pages) : \A m \in 1..Len(a.pages[i]) : a.pages[i][m] = "error"
    ELSE \A i \in 1..Len(a.script) : a.script[i].net \in Failures

\* C3: whatever the network failure (connection error, HTTP error status,
\* timeout, malformed body), a query function returns an empty list and raises
\* nothing.
C3_FailureYieldsEmptyList ==
    (pc = "returned" /\ AllRequestsFail(arg)) => ret = Returned(<<>>)

(***************************************************************************)
(* Claims about a run.                                                     *)
(***************************************************************************)
\* C2: when a file already exists at a record's target path as the record's
\* turn begins, no download call of the run (direct, Sci-Hub or publisher)
\* opens that path for writing.
C2_NoWriteToExistingPath ==
    \A a \in attempts : a.existed => a.outcome \notin WritingOutcomes

\* C4: once a keyword has been loaded, no exception leaves main, whatever the
\* network and the items do.
C4_RunCompletes == kws # <<>> => pc # "raised"

\* an item as the record loop of script v sees it: its record, its file
\* name, its metadata and summary rows, and its URL line if it has a URL
ProcessedAs(v, it) ==
    LET r == IF v = "fr" THEN normalize_fr(it) ELSE normalize(v, it)
        name == IF v = "fr" THEN fr_filename(r) ELSE pdf_name(r)
    IN  [rec |-> r,
         name |-> name,
         metadata |-> IF v = "fr" THEN fr_metadata_row(r) ELSE metadata_row(v, r, name),
         summary |-> IF v = "fr" THEN fr_summary_row(r) ELSE summary_row(name),
         url |-> IF v = "fr"
                 THEN (IF r.url_field # <<>> THEN <<<<r.url_field>>>> ELSE <<>>)
                 ELSE (IF PreferredUrl(r) # <<>> THEN <<<<PreferredUrl(r), name>>>>
                       ELSE <<>>)]

\* the items the sources can return
SourceItems ==
    CrossrefCatalog \cup LibgenCatalog \cup {pubmed_item(d) : d \in PubmedCatalog}

ProcessedTable == [v \in Variants |-> [it \in SourceItems |-> ProcessedAs(v, it)]]

\* the j-th item of the run as the record loop sees it
Processed(j) == ProcessedTable[variant][RunItems[j]]

\* the records whose rows the run has handed to its files
Persisted ==
    IF pc \in {"direct", "fallback", "advance", "download"} THEN count + 1 ELSE count

\* the records a run that reaches its end has processed: the loop tests the
\* cap after a record, so the first record is processed under any cap
ProcessedAtEnd ==
    IF variant = "fr" \/ RunItems = <<>> THEN Len(RunItems)
    ELSE Min(Len(RunItems), Max(Cap, 1))

\* the rows written so far, flushed or not
Written(f, b) == f.rows \o b

HasRow(rows, row) == \E k \in 1..Len(rows) : rows[k] = row

\* the download of record j, p, has been tried, or its file was there already
DownloadTried(j, p) ==
    p.rec.pdf_url # <<>> =>
        \/ \E b \in attempts :
              b.rec = j /\ b.via = IF variant = "fr" THEN "publisher" ELSE "direct"
        \/ Exists(disk, p.name)

C7_NoKeywordsStopsRun ==
    [][SectionKeywords(variant, keywords_md) = <<>> =>
          /\ pc = "start" /\ pc' = "exit" /\ kws' = <<>>
          /\ UNCHANGED <<queryvars, count, filevars, attempts>>]_vars

\* a run that has exited on a file without the section, beside the files of
\* an earlier run
C7_Witness ==
    /\ pc = "exit" /\ SectionStart(variant, keywords_md) = 0
    /\ keywords_md # <<>> /\ disk # {} /\ metadata.rows # <<>>

\* the files a run may find
InitialFiles(v) ==
    {[urls |-> NoFile, metadata |-> NoFile, summary |-> NoFile], PriorFiles[v]}

\* the header a run adds to a table it finds empty
HeaderFor(f, header, n) ==
    IF variant # "fr" /\ f.size = 0 /\ n > 0 THEN <<header>> ELSE <<>>

\* the URL line of a processed item p: none when the item has no URL, and in
\* process_items none when the URL is a line of the list the run found
UrlRowsOf(init, p) ==
    IF variant = "fr" /\ p.url # <<>> /\ UrlOnDisk(init.urls, p.url[1][1])
    THEN <<>> ELSE p.url

RECURSIVE UrlRowsTo(_, _, _)
UrlRowsTo(init, items, n) ==
    IF n = 0 THEN <<>> ELSE UrlRowsTo(init, items, n - 1) \o UrlRowsOf(init, items[n])

C11_FilenameIsUniqueKey ==
    \A i \in 1..Persisted : \A j \in 1..Persisted :
        RunItems[i] # RunItems[j] => Processed(i).name # Processed(j).name

\* the fields of a line of the URL list: the URL and the file name
UrlFields == 2

\* the rows of a file as a set
RowSet(rows) == {rows[k] : k \in 1..Len(rows)}

\* C12: every row in the three files has the shape of its file's schema: a
\* URL line holds the URL and the file name, a metadata row the nine fields
\* of the metadata header, a summary row the five fields of the summary
\* header.
C12_RowsConformToSchema ==
    /\ \A row \in RowSet(Written(urls, buf.urls)) : Len(row) = UrlFields
    /\ \A row \in RowSet(Written(metadata, buf.metadata)) : Len(row) = Len(MetadataHeader)
    /\ \A row \in RowSet(Written(summary, buf.summary)) : Len(row) = Len(SummaryHeader)

(***************************************************************************)
(* Specification of the CrossRef pagination of fetch_literature.py and     *)
(* fetch_literature_fr.py against a large server.                          *)
(***************************************************************************)
\* the values of --max the French script's pagination is run with
PagedMaxChoices == MaxChoices("fr") \cup {PageRows + MaxArg, 2 * PageRows}

InitPages ==
    /\ variant \in {"vi", "fr"} /\ pc = "crossref"
    /\ arg = LargeServer /\ ret = <<>>
    /\ keywords_md = <<>> /\ kws = <<<<"a">>>>
    /\ max_arg \in (IF variant = "fr" THEN PagedMaxChoices ELSE MaxChoices(variant))
    /\ page = 0 /\ offset = 0
    /\ crossref_items = <<>> /\ pubmed_items = <<>>
    /\ libgen_items = <<>> /\ scihub_items = <<>>
    /\ count = 0 /\ downloaded = FALSE /\ existed = FALSE
    /\ buf = NoRows /\ disk = {} /\ attempts = {}
    /\ urls = NoFile /\ metadata = NoFile /\ summary = NoFile

NextPages == CrossrefPage \/ CrossrefPaged

SpecPages == InitPages /\ [][NextPages]_vars

\* the cap of the collected list
PageCap == IF variant = "vi" THEN MaxPages * PageRows ELSE max_arg

\* the items received in answer to the first k requests
RECURSIVE Received(_, _)
Received(log, k) ==
    IF k = 0 THEN 0 ELSE Received(log, k - 1) + Max(log[k].got, 0)

\* the cap is reached after the k-th request
CapReached(log, k) ==
    IF variant = "vi" THEN k >= MaxPages ELSE Received(log, k) >= max_arg

\* the requests are made at the offsets 0, 50, 100, ...; a request follows
\* another only after a page of at least the rows asked for and under the
\* cap; the last request failed, came back short, or reached the cap
PagesRequestedInOrder ==
    /\ \A k \in 1..Len(ret) : ret[k].offset = PageRows * (k - 1)
    /\ \A k \in 1..(Len(ret) - 1) : ret[k].got >= ret[k].rows /\ ~CapReached(ret, k)
    /\ pc # "crossref" =>
          IF ret = <<>> THEN PageCap <= 0
          ELSE ret[Len(ret)].got < ret[Len(ret)].rows \/ CapReached(ret, Len(ret))
    /\ Len(ret) <= Max(PageCap, 0) \div PageRows + 1

\* C13: the pagination requests pages at consecutive offsets, stops exactly
\* when a page fails, comes back with fewer items than asked for, or the cap
\* is reached, and whatever the server does the collected list never holds
\* more than the cap: 250 items in fetch_literature.py, max_results in
\* fetch_literature_fr.py.
C13_PaginationStopsAtCap ==
    /\ PagesRequestedInOrder
    /\ Len(crossref_items) <= Max(PageCap, 0)

\* C14: the records a run persists (the metadata rows it appends) never
\* exceed the cap: 250 in fetch_literature.py, the value of --max in
\* fetch_literature_en.py and fetch_literature_fr.py, whatever integer --max
\* is and whatever the sources return.
C14_PersistedWithinCap == Persisted <= Max(Cap, 0)

\* C15: for a processed record with a DOI for which query_scihub returned a
\* PDF URL: if no file is at the record's target path after the direct
\* download step (the record has no direct PDF URL, or its direct download
\* failed), the Sci-Hub download to that path is attempted in the same run.
C15_FallbackWhenNoFile ==
    pc = "advance" =>
        \E p \in {Processed(count + 1)} :
            (p.rec.doi # <<>> /\ scihub_pdf_of(scihub_items, p.rec.doi) # <<>>) =>
                \/ \E a \in attempts : a.rec = count + 1 /\ a.via = "scihub"
                \/ Exists(disk, p.name)

\* the items of the sources in the order CrossRef, PubMed, LibGen
SourceOrder == crossref_items \o pubmed_items \o libgen_items

\* rows after is rows before with row appended, after a header or not
AppendsRow(before, after, row) ==
    /\ Len(after) \in {Len(before) + 1, Len(before) + 2}
    /\ SubSeq(after, 1, Len(before)) = before
    /\ after[Len(after)] = row

\* a step that changes a file's rows appends the row of record j, before any
\* download of record j is tried
RowStep(before, after, j, row) ==
    after # before =>
        /\ j <= Len(SourceOrder) /\ count' = count
        /\ AppendsRow(before, after, row)
        /\ \A a \in attempts : a.rec < j

\* C16: the records are processed one at a time in the order of the sources,
\* CrossRef, then PubMed, then LibGen: every step that writes rows writes
\* those of the record in hand, a download is attempted only for the record
\* in hand and after its rows were appended, it alone changes References/ and
\* only at that record's path, and the loop then moves on to the next record,
\* never back.
C16_OneRecordAtATime ==
    [][\E j \in {count + 1} :
        \E p \in {IF j <= Len(SourceOrder) THEN ProcessedTable[variant][SourceOrder[j]]
                  ELSE ProcessedTable[variant][X1]} :
          /\ count' \in {count, j}
          /\ RowStep(Written(metadata, buf.metadata), Written(metadata', buf'.metadata),
                     j, p.metadata)
          /\ RowStep(Written(summary, buf.summary), Written(summary', buf'.summary),
                     j, p.summary)
          /\ Written(urls', buf'.urls) # Written(urls, buf.urls) =>
                /\ p.url # <<>>
                /\ RowStep(Written(urls, buf.urls), Written(urls', buf'.urls), j, p.url[1])
          /\ attempts' # attempts =>
                /\ \E a \in attempts' : attempts' = attempts \cup {a} /\ a.rec = j
                /\ j <= Len(SourceOrder)
                /\ Written(metadata, buf.metadata) # <<>>
                /\ Written(metadata, buf.metadata)[Len(Written(metadata, buf.metadata))]
                      = p.metadata
                /\ Written(summary, buf.summary)[Len(Written(summary, buf.summary))]
                      = p.summary
          /\ disk' # disk =>
                /\ attempts' # attempts
                /\ {e \in disk' : e.name # p.name} = {e \in disk : e.name # p.name}]_vars

\* a run over a CrossRef item and a LibGen item has ended, with a download
\* tried for each
C16_Witness ==
    /\ pc = "done" /\ count >= 2
    /\ crossref_items # <<>> /\ libgen_items # <<>>
    /\ \E a \in attempts : a.rec = 1
    /\ \E b \in attempts : b.rec = Len(crossref_items \o pubmed_items) + 1

(***************************************************************************)
(* Specification of two runs calling append_metadata (or append_summary)   *)
(* on the same file at the same time.  arg[p] is the call of run p: its    *)
(* position, its row, the rows its writer has buffered and whether it saw  *)
(* size 0; ret is <<"overlapped">> once a call has opened the file while   *)
(* the other call had it open.  A call opens the file, tests its size and  *)
(* buffers its rows, and closes the file, which writes the buffered rows.  *)
(***************************************************************************)
Procs == {1, 2}

Overlapped == <<"overlapped">>

AppendFns == {"append_metadata", "append_summary"}

\* the function the two runs call
ConcurrentFn == arg[1].fn

ConcurrentHeader == IF ConcurrentFn = "append_metadata" THEN MetadataHeader ELSE SummaryHeader

ConcurrentFile == IF ConcurrentFn = "append_metadata" THEN metadata ELSE summary

\* the file the calls share becomes f
SharedFileBecomes(f) ==
    /\ metadata' = IF ConcurrentFn = "append_metadata" THEN f ELSE metadata
    /\ summary' = IF ConcurrentFn = "append_metadata" THEN summary ELSE f

\* the row of item it for function fn
RowFor(fn, v, it) ==
    IF fn = "append_metadata" THEN ProcessedTable[v][it].metadata
    ELSE ProcessedTable[v][it].summary

InitConcurrent ==
    /\ variant \in {"vi", "en"} /\ pc = "call" /\ ret = <<>>
    /\ \E fn \in AppendFns, it1 \in {X1, L1}, it2 \in {X2, L2} :
         /\ arg = [p \in Procs |->
                     [pc |-> "start", fn |-> fn, saw |-> FALSE, buffer |-> <<>>,
                      row |-> RowFor(fn, variant, IF p = 1 THEN it1 ELSE it2)]]
         /\ \E f \in {NoFile, OpenAppend(NoFile),
                      append_with_header(NoFile,
                                         IF fn = "append_metadata" THEN MetadataHeader
                                         ELSE SummaryHeader,
                                         RowFor(fn, variant, L3))} :
              /\ metadata = IF fn = "append_metadata" THEN f ELSE NoFile
              /\ summary = IF fn = "append_metadata" THEN NoFile ELSE f
    /\ IdleRun /\ urls = NoFile

ConcurrentUnchanged ==
    UNCHANGED <<variant, pc, keywords_md, kws, max_arg, queryvars, count, downloaded,
                existed, urls, buf, disk, attempts>>

\* with open(path, 'a', ...) as f
ProcOpen(p) ==
    /\ arg[p].pc = "start"
    /\ SharedFileBecomes(OpenAppend(ConcurrentFile))
    /\ arg' = [arg EXCEPT ![p].pc = "opened"]
    /\ ret' = IF \E q \in Procs \ {p} : arg[q].pc \in {"opened", "buffered"}
              THEN Overlapped ELSE ret
    /\ ConcurrentUnchanged

\* if os.path.getsize(path) == 0: writer.writerow(header); writer.writerow(row)
ProcBuffer(p) ==
    /\ arg[p].pc = "opened"
    /\ arg' = [arg EXCEPT ![p].pc = "buffered",
                          ![p].saw = IsEmptyFile(ConcurrentFile),
                          ![p].buffer = buffered_rows(ConcurrentFile, ConcurrentHeader,
                                                      arg[p].row)]
    /\ UNCHANGED <<ret, metadata, summary>>
    /\ ConcurrentUnchanged

\* the end of the with block: the buffered rows are written to the file
ProcClose(p) ==
    /\ arg[p].pc = "buffered"
    /\ SharedFileBecomes(Flush(ConcurrentFile, arg[p].buffer))
    /\ arg' = [arg EXCEPT ![p].pc = "closed", ![p].buffer = <<>>]
    /\ UNCHANGED ret
    /\ ConcurrentUnchanged

NextConcurrent == \E p \in Procs : ProcOpen(p) \/ ProcBuffer(p) \/ ProcClose(p)

SpecConcurrent == InitConcurrent /\ [][NextConcurrent]_vars

\* the header rows of the shared file
HeaderRows == {k \in 1..Len(ConcurrentFile.rows) : ConcurrentFile.rows[k] = ConcurrentHeader}

BothReturned == \A p \in Procs : arg[p].pc = "closed"

\* C17: the header test is not atomic across runs.  After two calls on the
\* same file the header is the first row; it is there exactly once when the
\* calls did not overlap, and it is there twice only when the calls
\* overlapped and both saw size 0 after opening the file.
C17_HeaderOnceOnlyWhenSequential ==
    BothReturned =>
        /\ ConcurrentFile.rows[1] = ConcurrentHeader
        /\ ret # Overlapped => Cardinality(HeaderRows) = 1
        /\ Cardinality(HeaderRows) # 1 =>
              /\ Cardinality(HeaderRows) = 2
              /\ ret = Overlapped
              /\ \A p \in Procs : arg[p].saw

\* two overlapping calls on an empty file have both seen size 0 and the
\* header is in the file twice
C17_Witness ==
    /\ BothReturned /\ ret = Overlapped
    /\ \A p \in Procs : arg[p].saw
    /\ Cardinality(HeaderRows) = 2

\* the mirrors fetch_literature_en.py lists
LibgenMirrorsEn == 3

\* the mirrors of the script's list whose page parses to at least one item
AnsweringMirrors(v, script) ==
    {i \in 1..(IF v = "en" THEN LibgenMirrorsEn ELSE LibgenMirrors) :
        script[i].net = "ok" /\ script[i].items # <<>>}

\* C18: query_libgen of fetch_literature.py and of fetch_literature_en.py
\* tries the mirrors in the listed order and returns the items of the first
\* one that answers with at least one parsed result; it returns an empty
\* list only when no mirror of the list does, and it never raises.
C18_FirstAnsweringMirror ==
    (pc = "returned" /\ variant \in {"vi", "en"} /\ arg.fn = "query_libgen") =>
        \E good \in {AnsweringMirrors(variant, arg.script)} :
            ret = Returned(IF good = {} THEN <<>>
                           ELSE arg.script[CHOOSE i \in good : \A j \in good : i <= j].items)

\* C19: a failed download leaves the target path as it was: when
\* download_file returns False, no file is at the target path that was not
\* there before the call.
C19_FailedDownloadLeavesPath ==
    [][\A a \in attempts' \ attempts :
          (a.via \in {"direct", "scihub"} /\ ~download_ok(a.outcome)) =>
              \A e \in disk' : Exists(disk, e.name)]_vars

\* C20: process_items of fetch_literature_fr.py appends a URL only if the
\* list does not hold it yet, URLs appended earlier in the same call
\* included: no URL it has written occurs twice in the URL list, even when
\* two items of the call have the same DOI.
C20_NoUrlWrittenTwice ==
    variant = "fr" =>
        \E rows \in {Written(urls, buf.urls)} :
            \A k \in 1..Len(rows) : \A l \in 1..Len(rows) :
                rows[k] = rows[l] => k = l

====
